---- MODULE Spec2Model ----
(***************************************************************************)
(* Model of the ABNF -> PEGTL generator (src/example/pegtl/abnf2pegtl2.cpp) *)
(* Strings are sequences of one-character strings.  Parse-tree nodes are   *)
(* records [id, content, children]; source positions are not modelled.     *)
(* The parser is modelled by the rule nodes it hands to node::emplace_back *)
(* (node kinds: rulename, literal, alternation, concatenation, group,      *)
(* option, predicates, repetition); numeric and prose values are left out. *)
(***************************************************************************)
EXTENDS Integers, Sequences, FiniteSets, TLC

VARIABLES
  phase,          \* position of main: "parse", "gen", "done", "failed";
                  \* of a single call: "call", "returned"
  children,       \* root->children, the rulelist
  nparsed,        \* rules matched by the parser so far
  rules_defined,  \* names collected by main's pre-pass
  rules,          \* spellings seen by get_rulename
  next,           \* index of the next rule main hands to to_string
  out,            \* writes to std::cout, in order
  err,            \* the exception that ended the compilation, or "none"
  operand_order,  \* the build's order of evaluating the operands of +
  arg,            \* the node a single call of to_string is applied to
  result          \* what that call returned

vars == <<phase, children, nparsed, rules_defined, rules, next, out, err, operand_order,
          arg, result>>

(* ------------------------------ bounds --------------------------------- *)
\* number of rules of the source text the parser hands to emplace_back
MaxRules == 3

(* --------------------------- characters -------------------------------- *)
UpperCase == <<"A","B","C","D","E","F","G","H","I","J","K","L","M",
               "N","O","P","Q","R","S","T","U","V","W","X","Y","Z">>
LowerCase == <<"a","b","c","d","e","f","g","h","i","j","k","l","m",
               "n","o","p","q","r","s","t","u","v","w","x","y","z">>
Digits    == <<"0","1","2","3","4","5","6","7","8","9">>

\* ::tolower in the "C" locale
tolower(c) ==
  IF \E k \in 1..26 : UpperCase[k] = c
  THEN LowerCase[CHOOSE k \in 1..26 : UpperCase[k] = c]
  ELSE c

\* std::isalpha in the "C" locale
isalpha(c) == \E k \in 1..26 : UpperCase[k] = c \/ LowerCase[k] = c

\* a comparison that tells upper case from lower case (strcmp)
strcasecmp_exact(a, b) == IF a = b THEN 0 ELSE 1

\* ::strcasecmp( a, b ): 0 iff the strings are equal ignoring ASCII case
\* (only the comparison with 0 is used by the program)
strcasecmp(a, b) ==
  IF Len(a) = Len(b) /\ \A k \in 1..Len(a) : tolower(a[k]) = tolower(b[k])
  THEN 0 ELSE 1

\* std::string::find( "__" ) != npos
find_double_underscore(v) == \E k \in 1..(Len(v) - 1) : v[k] = "_" /\ v[k + 1] = "_"

keywords ==
  { <<"a","l","i","g","n","a","s">>,
    <<"a","l","i","g","n","o","f">>,
    <<"a","n","d">>,
    <<"a","n","d","_","e","q">>,
    <<"a","s","m">>,
    <<"a","u","t","o">>,
    <<"b","i","t","a","n","d">>,
    <<"b","i","t","o","r">>,
    <<"b","o","o","l">>,
    <<"b","r","e","a","k">>,
    <<"c","a","s","e">>,
    <<"c","a","t","c","h">>,
    <<"c","h","a","r">>,
    <<"c","h","a","r","1","6","_","t">>,
    <<"c","h","a","r","3","2","_","t">>,
    <<"c","l","a","s","s">>,
    <<"c","o","m","p","l">>,
    <<"c","o","n","s","t">>,
    <<"c","o","n","s","t","e","x","p","r">>,
    <<"c","o","n","s","t","_","c","a","s","t">>,
    <<"c","o","n","t","i","n","u","e">>,
    <<"d","e","c","l","t","y","p","e">>,
    <<"d","e","f","a","u","l","t">>,
    <<"d","e","l","e","t","e">>,
    <<"d","o">>,
    <<"d","o","u","b","l","e">>,
    <<"d","y","n","a","m","i","c","_","c","a","s","t">>,
    <<"e","l","s","e">>,
    <<"e","n","u","m">>,
    <<"e","x","p","l","i","c","i","t">>,
    <<"e","x","p","o","r","t">>,
    <<"e","x","t","e","r","n">>,
    <<"f","a","l","s","e">>,
    <<"f","l","o","a","t">>,
    <<"f","o","r">>,
    <<"f","r","i","e","n","d">>,
    <<"g","o","t","o">>,
    <<"i","f">>,
    <<"i","n","l","i","n","e">>,
    <<"i","n","t">>,
    <<"l","o","n","g">>,
    <<"m","u","t","a","b","l","e">>,
    <<"n","a","m","e","s","p","a","c","e">>,
    <<"n","e","w">>,
    <<"n","o","e","x","c","e","p","t">>,
    <<"n","o","t">>,
    <<"n","o","t","_","e","q">>,
    <<"n","u","l","l","p","t","r">>,
    <<"o","p","e","r","a","t","o","r">>,
    <<"o","r">>,
    <<"o","r","_","e","q">>,
    <<"p","r","i","v","a","t","e">>,
    <<"p","r","o","t","e","c","t","e","d">>,
    <<"p","u","b","l","i","c">>,
    <<"r","e","g","i","s","t","e","r">>,
    <<"r","e","i","n","t","e","r","p","r","e","t","_","c","a","s","t">>,
    <<"r","e","t","u","r","n">>,
    <<"s","h","o","r","t">>,
    <<"s","i","g","n","e","d">>,
    <<"s","i","z","e","o","f">>,
    <<"s","t","a","t","i","c">>,
    <<"s","t","a","t","i","c","_","a","s","s","e","r","t">>,
    <<"s","t","a","t","i","c","_","c","a","s","t">>,
    <<"s","t","r","u","c","t">>,
    <<"s","w","i","t","c","h">>,
    <<"t","e","m","p","l","a","t","e">>,
    <<"t","h","i","s">>,
    <<"t","h","r","e","a","d","_","l","o","c","a","l">>,
    <<"t","h","r","o","w">>,
    <<"t","r","u","e">>,
    <<"t","r","y">>,
    <<"t","y","p","e","d","e","f">>,
    <<"t","y","p","e","i","d">>,
    <<"t","y","p","e","n","a","m","e">>,
    <<"u","n","i","o","n">>,
    <<"u","n","s","i","g","n","e","d">>,
    <<"u","s","i","n","g">>,
    <<"v","i","r","t","u","a","l">>,
    <<"v","o","i","d">>,
    <<"v","o","l","a","t","i","l","e">>,
    <<"w","c","h","a","r","_","t">>,
    <<"w","h","i","l","e">>,
    <<"x","o","r">>,
    <<"x","o","r","_","e","q">> }

(* ------------------------------ nodes ---------------------------------- *)
Node(id, content, kids) == [id |-> id, content |-> content, children |-> kids]

Front(n) == n.children[1]
Back(n)  == n.children[Len(n.children)]

Lit(tag, text)    == Node(tag, text, <<>>)
Ref(name)         == Node("rulename", name, <<>>)
Alt(kids)         == Node("alternation", <<>>, kids)
Repetition(rep, element) ==
  Node("repetition", <<>>, <<Node("repeat", rep, <<>>), element>>)
Rule(name, op, assignee) ==
  Node("rule", <<>>, <<Ref(name), Node("defined_as_op", op, <<>>), assignee>>)

\* std::replace( v.begin(), v.end(), '-', '_' )
replace(v) == [k \in 1..Len(v) |-> IF v[k] = "-" THEN "_" ELSE v[k]]

\* get_rulename( n ): the content of a rulename node with '-' replaced
get_rulename(n) == replace(n.content)

(* ------------------------ node::emplace_back --------------------------- *)
\* index (from 1) of the first rule of ch whose name equals rname ignoring
\* case, Len(ch) + 1 when there is none: the while loop of the "=/" branch
first_match(ch, rname) ==
  IF \E k \in 1..Len(ch) : strcasecmp(rname, get_rulename(Front(ch[k]))) = 0
  THEN CHOOSE k \in 1..Len(ch) :
         /\ strcasecmp(rname, get_rulename(Front(ch[k]))) = 0
         /\ \A j \in 1..(k - 1) : strcasecmp(rname, get_rulename(Front(ch[j]))) # 0
  ELSE Len(ch) + 1

\* the previous rule with the new rule's alternatives appended to its assignee
consolidate(prev_rule, child) ==
  LET previous == Back(prev_rule)
      wrapped  == IF previous.id # "alternation"
                  THEN Alt(<<previous>>)
                  ELSE previous
      added    == IF Back(child).id = "alternation"
                  THEN Back(child).children
                  ELSE <<Back(child)>>
      merged   == [wrapped EXCEPT !.children = wrapped.children \o added]
  IN [prev_rule EXCEPT !.children[Len(prev_rule.children)] = merged]

\* children.erase( children.begin() + i ), i counted from 1 here
erase(ch, i) == SubSeq(ch, 1, i - 1) \o SubSeq(ch, i + 1, Len(ch))

\* a merge that leaves the consolidated rule where the previous rule was
incremental_in_place(ch, child, rname) ==
  LET k == first_match(ch, rname) IN
  IF k = Len(ch) + 1
  THEN [children |-> ch, err |-> "without_previous"]
  ELSE [children |-> [ch EXCEPT ![k] = consolidate(ch[k], child)],
        err |-> "none"]

\* a "=/" branch that takes a rule without previous definition as a definition
incremental_defines(ch, child, rname) ==
  LET k == first_match(ch, rname) IN
  IF k = Len(ch) + 1
  THEN [children |-> Append(ch, child), err |-> "none"]
  ELSE LET moved  == consolidate(ch[k], child)
           erased == erase(ch, k)
       IN IF k - 1 = Len(erased)
          THEN [children |-> erased, err |-> "without_previous"]
          ELSE [children |-> Append(erased, moved), err |-> "none"]

\* where the "=/" branch ends: the test i == this->size() after the loop,
\* evaluated on the list as the loop left it
incremental(ch, child, rname) ==
  LET k == first_match(ch, rname) IN
  IF k = Len(ch) + 1
  THEN [children |-> ch, err |-> "without_previous"]
  ELSE LET moved  == consolidate(ch[k], child)
           erased == erase(ch, k)
       IN IF k - 1 = Len(erased)
          THEN [children |-> erased, err |-> "without_previous"]
          ELSE [children |-> Append(erased, moved), err |-> "none"]

\* an insertion without the search for duplicates of the "=" branch
emplace_back_unchecked(ch, child) ==
  IF child.id = "rule" /\ child.children[2].content = <<"=", "/">>
  THEN incremental(ch, child, get_rulename(Front(child)))
  ELSE [children |-> Append(ch, child), err |-> "none"]

\* node::emplace_back( child ) on the node whose children are ch
emplace_back(ch, child) ==
  IF child.id = "rule"
  THEN LET rname == get_rulename(Front(child))
           op    == child.children[2].content
       IN IF op = <<"=">>
          THEN IF \E k \in 1..Len(ch) :
                    strcasecmp(rname, get_rulename(Front(ch[k]))) = 0
               THEN [children |-> ch, err |-> "already_defined"]
               ELSE [children |-> Append(ch, child), err |-> "none"]
          ELSE IF op = <<"=", "/">>
          THEN incremental(ch, child, rname)
          ELSE [children |-> ch, err |-> "invalid_operator"]
  ELSE [children |-> Append(ch, child), err |-> "none"]

(* --------------------------- emitted text ------------------------------ *)
\* A text is a sequence of pieces: a string literal of the program ("lit"),
\* a rule identifier ("id") or characters copied from the source ("str").
L(s)    == <<[t |-> "lit", v |-> <<s>>]>>
Id(v)   == <<[t |-> "id", v |-> v]>>
Chars(v) == IF v = <<>> THEN <<>> ELSE <<[t |-> "str", v |-> v]>>

prefix == L("tao::pegtl::")

\* append_char( s, c ): the text appended to s and the value returned
append_char(s, c) ==
  [s   |-> (IF s # <<>> THEN s \o L(", ") ELSE s)
           \o L("'")
           \o (IF c = "'" \/ c = "\\" THEN L("\\") ELSE <<>>)
           \o Chars(<<c>>)
           \o L("'"),
   ret |-> isalpha(c)]

RECURSIVE append_chars(_, _, _)
\* for( const auto c : content ) append_char( s, c ), from position k
append_chars(s, content, k) ==
  IF k > Len(content) THEN s
  ELSE append_chars(append_char(s, content[k]).s, content, k + 1)

\* remove_leading_zeroes( v )
remove_leading_zeroes(v) ==
  IF \A k \in 1..Len(v) : v[k] = "0"
  THEN <<>>
  ELSE LET pos == CHOOSE k \in 1..Len(v) :
                    v[k] # "0" /\ \A j \in 1..(k - 1) : v[j] = "0"
       IN SubSeq(v, pos, Len(v))

digit_value(c) == (CHOOSE k \in 1..10 : Digits[k] = c) - 1

RECURSIVE strtoull(_)
\* std::strtoull( s, nullptr, 10 ) of a string of decimal digits whose value
\* is in the range of unsigned long long (the grammar's stated precondition)
strtoull(s) ==
  IF s = <<>> THEN 0
  ELSE 10 * strtoull(SubSeq(s, 1, Len(s) - 1)) + digit_value(s[Len(s)])

RECURSIVE std_to_string(_)
\* std::to_string( n ) of an unsigned value
std_to_string(n) ==
  IF n < 10 THEN <<Digits[n + 1]>>
  ELSE Append(std_to_string(n \div 10), Digits[(n % 10) + 1])

\* position (from 1) of the first '*' of rep, 0 for npos
find_star(rep) ==
  IF \E k \in 1..Len(rep) : rep[k] = "*"
  THEN CHOOSE k \in 1..Len(rep) :
         rep[k] = "*" /\ \A j \in 1..(k - 1) : rep[j] # "*"
  ELSE 0

(* ---------------------------- get_rulename ----------------------------- *)
\* a search that tells upper case from lower case
find_rule_exact(r, v) ==
  IF \E k \in 1..Len(r) : r[k] = v
  THEN CHOOSE k \in 1..Len(r) : r[k] = v /\ \A j \in (k + 1)..Len(r) : r[j] # v
  ELSE 0

\* find_rule( r, v ): the reverse search; index (from 1) of the last entry
\* equal to v ignoring case, 0 for r.rend()
find_rule(r, v) ==
  IF \E k \in 1..Len(r) : strcasecmp(r[k], v) = 0
  THEN CHOOSE k \in 1..Len(r) :
         /\ strcasecmp(r[k], v) = 0
         /\ \A j \in (k + 1)..Len(r) : strcasecmp(r[j], v) # 0
  ELSE 0

\* the write  std::cout << "struct " << v << ";\n"
forward_declaration(v) == L("struct ") \o Id(v) \o L(";\n")

\* a resolution that does not look for the double underscore
get_rulename_fwd_keywords_only(n, print_forward_declarations, st) ==
  LET v  == get_rulename(n)
      it == find_rule(st.rules, v)
  IN IF it # 0
     THEN [ret |-> st.rules[it], rules |-> st.rules, out |-> st.out,
           err |-> "none"]
     ELSE IF v \in keywords
     THEN [ret |-> <<>>, rules |-> st.rules, out |-> st.out,
           err |-> "reserved_rulename"]
     ELSE [ret   |-> v,
           rules |-> Append(st.rules, v),
           out   |-> IF print_forward_declarations
                        /\ find_rule(rules_defined, v) # 0
                     THEN Append(st.out, forward_declaration(v))
                     ELSE st.out,
           err   |-> "none"]

\* a resolution that declares a defined name at every reference, seen or not
get_rulename_fwd_redeclares(n, print_forward_declarations, st) ==
  LET v  == get_rulename(n)
      it == find_rule(st.rules, v)
      o  == IF print_forward_declarations /\ find_rule(rules_defined, v) # 0
            THEN Append(st.out, forward_declaration(IF it # 0 THEN st.rules[it] ELSE v))
            ELSE st.out
  IN IF it # 0
     THEN [ret |-> st.rules[it], rules |-> st.rules, out |-> o, err |-> "none"]
     ELSE IF v \in keywords \/ find_double_underscore(v)
     THEN [ret |-> <<>>, rules |-> st.rules, out |-> st.out,
           err |-> "reserved_rulename"]
     ELSE [ret |-> v, rules |-> Append(st.rules, v), out |-> o, err |-> "none"]

\* get_rulename( n, print_forward_declarations ) run in the state st =
\* [rules, out]: the value returned, the state left, the exception thrown
get_rulename_fwd(n, print_forward_declarations, st) ==
  LET v  == get_rulename(n)
      it == find_rule(st.rules, v)
  IN IF it # 0
     THEN [ret |-> st.rules[it], rules |-> st.rules, out |-> st.out,
           err |-> "none"]
     ELSE IF v \in keywords \/ find_double_underscore(v)
     THEN [ret |-> <<>>, rules |-> st.rules, out |-> st.out,
           err |-> "reserved_rulename"]
     ELSE [ret   |-> v,
           rules |-> Append(st.rules, v),
           out   |-> IF print_forward_declarations
                        /\ find_rule(rules_defined, v) # 0
                     THEN Append(st.out, forward_declaration(v))
                     ELSE st.out,
           err   |-> "none"]

(* ------------------------------ to_string ------------------------------ *)
\* a call that returns the text s in the state st
Returns(s, st) == [str |-> s, rules |-> st.rules, out |-> st.out, err |-> "none"]
\* a call that leaves by the exception e in the state st
Throws(e, st)  == [str |-> <<>>, rules |-> st.rules, out |-> st.out, err |-> e]

\* a repetition branch that passes the maximum, not the difference, to rep_opt
repetition_text_maximum(rep, content) ==
  LET star == find_star(rep)
      min == remove_leading_zeroes(SubSeq(rep, 1, star - 1))
      max == remove_leading_zeroes(SubSeq(rep, star + 1, Len(rep)))
      min_element == IF strtoull(min) = 1
                     THEN content
                     ELSE prefix \o L("rep< ") \o Chars(min) \o L(", ") \o content \o L(" >")
      max_element == prefix \o L("rep_opt< ") \o Chars(max) \o L(", ")
                     \o content \o L(" >")
  IN IF star = 0 \/ min = <<>> \/ max = <<>> \/ strtoull(min) >= strtoull(max)
     THEN [err |-> "repetition_minimum_greater_than_maximum", str |-> <<>>]
     ELSE [err |-> "none",
           str |-> prefix \o L("seq< ") \o min_element \o L(", ") \o max_element \o L(" >")]

\* a repetition branch that wraps a minimum of one in rep< 1, ... > as well
repetition_text_always_rep(rep, content) ==
  LET star == find_star(rep) IN
  IF star = 0
  THEN LET v == remove_leading_zeroes(rep) IN
       IF v = <<>>
       THEN [err |-> "repetition_of_zero", str |-> <<>>]
       ELSE [err |-> "none",
             str |-> prefix \o L("rep< ") \o Chars(v) \o L(", ") \o content \o L(" >")]
  ELSE
  LET min == remove_leading_zeroes(SubSeq(rep, 1, star - 1))
      max == remove_leading_zeroes(SubSeq(rep, star + 1, Len(rep)))
  IN
  IF star # Len(rep) /\ max = <<>>
  THEN [err |-> "repetition_maximum_of_zero", str |-> <<>>]
  ELSE IF min = <<>> /\ max = <<>>
  THEN [err |-> "none", str |-> prefix \o L("star< ") \o content \o L(" >")]
  ELSE IF min # <<>> /\ max = <<>>
  THEN IF min = <<"1">>
       THEN [err |-> "none", str |-> prefix \o L("plus< ") \o content \o L(" >")]
       ELSE [err |-> "none",
             str |-> prefix \o L("rep_min< ") \o Chars(min) \o L(", ") \o content \o L(" >")]
  ELSE IF min = <<>> /\ max # <<>>
  THEN IF max = <<"1">>
       THEN [err |-> "none", str |-> prefix \o L("opt< ") \o content \o L(" >")]
       ELSE [err |-> "none",
             str |-> prefix \o L("rep_max< ") \o Chars(max) \o L(", ") \o content \o L(" >")]
  ELSE
  LET min_val == strtoull(min)
      max_val == strtoull(max)
      min_element == IF min_val = 0
                     THEN content
                     ELSE prefix \o L("rep< ") \o Chars(min) \o L(", ") \o content \o L(" >")
      max_element == prefix
                     \o (IF max_val - min_val = 1
                         THEN L("opt< ")
                         ELSE L("rep_opt< ") \o Chars(std_to_string(max_val - min_val)) \o L(", "))
                     \o content \o L(" >")
  IN
  IF min_val > max_val
  THEN [err |-> "repetition_minimum_greater_than_maximum", str |-> <<>>]
  ELSE IF min_val = max_val
  THEN [err |-> "none", str |-> min_element]
  ELSE [err |-> "none",
        str |-> prefix \o L("seq< ") \o min_element \o L(", ") \o max_element \o L(" >")]

\* a repetition branch without the plus< > form of a minimum of one
repetition_text_no_plus(rep, content) ==
  LET star == find_star(rep) IN
  IF star = 0
  THEN LET v == remove_leading_zeroes(rep) IN
       IF v = <<>>
       THEN [err |-> "repetition_of_zero", str |-> <<>>]
       ELSE [err |-> "none",
             str |-> prefix \o L("rep< ") \o Chars(v) \o L(", ") \o content \o L(" >")]
  ELSE
  LET min == remove_leading_zeroes(SubSeq(rep, 1, star - 1))
      max == remove_leading_zeroes(SubSeq(rep, star + 1, Len(rep)))
  IN
  IF star # Len(rep) /\ max = <<>>
  THEN [err |-> "repetition_maximum_of_zero", str |-> <<>>]
  ELSE IF min = <<>> /\ max = <<>>
  THEN [err |-> "none", str |-> prefix \o L("star< ") \o content \o L(" >")]
  ELSE IF min # <<>> /\ max = <<>>
  THEN IF min = <<"0">>
       THEN [err |-> "none", str |-> prefix \o L("plus< ") \o content \o L(" >")]
       ELSE [err |-> "none",
             str |-> prefix \o L("rep_min< ") \o Chars(min) \o L(", ") \o content \o L(" >")]
  ELSE IF min = <<>> /\ max # <<>>
  THEN IF max = <<"1">>
       THEN [err |-> "none", str |-> prefix \o L("opt< ") \o content \o L(" >")]
       ELSE [err |-> "none",
             str |-> prefix \o L("rep_max< ") \o Chars(max) \o L(", ") \o content \o L(" >")]
  ELSE
  LET min_val == strtoull(min)
      max_val == strtoull(max)
      min_element == IF min_val = 1
                     THEN content
                     ELSE prefix \o L("rep< ") \o Chars(min) \o L(", ") \o content \o L(" >")
      max_element == prefix
                     \o (IF max_val - min_val = 1
                         THEN L("opt< ")
                         ELSE L("rep_opt< ") \o Chars(std_to_string(max_val - min_val)) \o L(", "))
                     \o content \o L(" >")
  IN
  IF min_val > max_val
  THEN [err |-> "repetition_minimum_greater_than_maximum", str |-> <<>>]
  ELSE IF min_val = max_val
  THEN [err |-> "none", str |-> min_element]
  ELSE [err |-> "none",
        str |-> prefix \o L("seq< ") \o min_element \o L(", ") \o max_element \o L(" >")]

\* a repetition branch that also rejects a minimum equal to the maximum
repetition_text_strict(rep, content) ==
  LET star == find_star(rep) IN
  IF star = 0
  THEN LET v == remove_leading_zeroes(rep) IN
       IF v = <<>>
       THEN [err |-> "repetition_of_zero", str |-> <<>>]
       ELSE [err |-> "none",
             str |-> prefix \o L("rep< ") \o Chars(v) \o L(", ") \o content \o L(" >")]
  ELSE
  LET min == remove_leading_zeroes(SubSeq(rep, 1, star - 1))
      max == remove_leading_zeroes(SubSeq(rep, star + 1, Len(rep)))
  IN
  IF star # Len(rep) /\ max = <<>>
  THEN [err |-> "repetition_maximum_of_zero", str |-> <<>>]
  ELSE IF min = <<>> /\ max = <<>>
  THEN [err |-> "none", str |-> prefix \o L("star< ") \o content \o L(" >")]
  ELSE IF min # <<>> /\ max = <<>>
  THEN IF min = <<"1">>
       THEN [err |-> "none", str |-> prefix \o L("plus< ") \o content \o L(" >")]
       ELSE [err |-> "none",
             str |-> prefix \o L("rep_min< ") \o Chars(min) \o L(", ") \o content \o L(" >")]
  ELSE IF min = <<>> /\ max # <<>>
  THEN IF max = <<"1">>
       THEN [err |-> "none", str |-> prefix \o L("opt< ") \o content \o L(" >")]
       ELSE [err |-> "none",
             str |-> prefix \o L("rep_max< ") \o Chars(max) \o L(", ") \o content \o L(" >")]
  ELSE
  LET min_val == strtoull(min)
      max_val == strtoull(max)
      min_element == IF min_val = 1
                     THEN content
                     ELSE prefix \o L("rep< ") \o Chars(min) \o L(", ") \o content \o L(" >")
      max_element == prefix
                     \o (IF max_val - min_val = 1
                         THEN L("opt< ")
                         ELSE L("rep_opt< ") \o Chars(std_to_string(max_val - min_val)) \o L(", "))
                     \o content \o L(" >")
  IN
  IF min_val >= max_val
  THEN [err |-> "repetition_minimum_greater_than_maximum", str |-> <<>>]
  ELSE IF min_val = max_val
  THEN [err |-> "none", str |-> min_element]
  ELSE [err |-> "none",
        str |-> prefix \o L("seq< ") \o min_element \o L(", ") \o max_element \o L(" >")]

\* the repetition branch of to_string once the element's text is known
repetition_text(rep, content) ==
  LET star == find_star(rep) IN
  IF star = 0
  THEN LET v == remove_leading_zeroes(rep) IN
       IF v = <<>>
       THEN [err |-> "repetition_of_zero", str |-> <<>>]
       ELSE [err |-> "none",
             str |-> prefix \o L("rep< ") \o Chars(v) \o L(", ") \o content \o L(" >")]
  ELSE
  LET min == remove_leading_zeroes(SubSeq(rep, 1, star - 1))
      max == remove_leading_zeroes(SubSeq(rep, star + 1, Len(rep)))
  IN
  IF star # Len(rep) /\ max = <<>>
  THEN [err |-> "repetition_maximum_of_zero", str |-> <<>>]
  ELSE IF min = <<>> /\ max = <<>>
  THEN [err |-> "none", str |-> prefix \o L("star< ") \o content \o L(" >")]
  ELSE IF min # <<>> /\ max = <<>>
  THEN IF min = <<"1">>
       THEN [err |-> "none", str |-> prefix \o L("plus< ") \o content \o L(" >")]
       ELSE [err |-> "none",
             str |-> prefix \o L("rep_min< ") \o Chars(min) \o L(", ") \o content \o L(" >")]
  ELSE IF min = <<>> /\ max # <<>>
  THEN IF max = <<"1">>
       THEN [err |-> "none", str |-> prefix \o L("opt< ") \o content \o L(" >")]
       ELSE [err |-> "none",
             str |-> prefix \o L("rep_max< ") \o Chars(max) \o L(", ") \o content \o L(" >")]
  ELSE
  LET min_val == strtoull(min)
      max_val == strtoull(max)
      min_element == IF min_val = 1
                     THEN content
                     ELSE prefix \o L("rep< ") \o Chars(min) \o L(", ") \o content \o L(" >")
      max_element == prefix
                     \o (IF max_val - min_val = 1
                         THEN L("opt< ")
                         ELSE L("rep_opt< ") \o Chars(std_to_string(max_val - min_val)) \o L(", "))
                     \o content \o L(" >")
  IN
  IF min_val > max_val
  THEN [err |-> "repetition_minimum_greater_than_maximum", str |-> <<>>]
  ELSE IF min_val = max_val
  THEN [err |-> "none", str |-> min_element]
  ELSE [err |-> "none",
        str |-> prefix \o L("seq< ") \o min_element \o L(", ") \o max_element \o L(" >")]

RECURSIVE to_string(_, _)
RECURSIVE to_string_children(_, _, _)

\* to_string( v ) of a vector of nodes, from position k on; acc holds the
\* result so far and the state
to_string_children(v, k, acc) ==
  IF k > Len(v) THEN acc
  ELSE LET r == to_string(v[k], acc) IN
       IF r.err # "none" THEN r
       ELSE to_string_children(v, k + 1,
              [r EXCEPT !.str = (IF acc.str # <<>> THEN acc.str \o L(", ") ELSE <<>>)
                                \o r.str])

\* prefix + open + to_string( n->children ) + " >"
wrap_children(open, n, st) ==
  LET r == to_string_children(n.children, 1, Returns(<<>>, st)) IN
  IF r.err # "none" THEN r
  ELSE [r EXCEPT !.str = prefix \o L(open) \o r.str \o L(" >")]

\* the rule branch: "struct " + get_rulename( front, false ) + " : "
\* + to_string( back ) + " {};" with the two calls in the build's order
rule_text(n, st) ==
  IF operand_order = "name_first"
  THEN LET a == get_rulename_fwd(Front(n), FALSE, st) IN
       IF a.err # "none" THEN Throws(a.err, a)
       ELSE LET b == to_string(Back(n), a) IN
            IF b.err # "none" THEN b
            ELSE [b EXCEPT !.str = L("struct ") \o Id(a.ret) \o L(" : ")
                                   \o b.str \o L(" {};")]
  ELSE LET b == to_string(Back(n), st) IN
       IF b.err # "none" THEN b
       ELSE LET a == get_rulename_fwd(Front(n), FALSE, b) IN
            IF a.err # "none" THEN Throws(a.err, a)
            ELSE Returns(L("struct ") \o Id(a.ret) \o L(" : ")
                         \o b.str \o L(" {};"), a)

\* to_string( n ) run in the state st = [rules, out]: the text returned,
\* the state left, the exception thrown
to_string(n, st) ==
  IF n.id = "rulename"
  THEN LET a == get_rulename_fwd(n, TRUE, st) IN
       IF a.err # "none" THEN Throws(a.err, a) ELSE Returns(Id(a.ret), a)
  ELSE IF n.id = "string_tag"
  THEN Returns(prefix \o L("string< ") \o append_chars(<<>>, n.content, 1) \o L(" >"), st)
  ELSE IF n.id = "istring_tag"
  THEN Returns(prefix \o L("istring< ") \o append_chars(<<>>, n.content, 1) \o L(" >"), st)
  ELSE IF n.id = "one_tag"
  THEN Returns(prefix \o L("one< ") \o append_chars(<<>>, n.content, 1) \o L(" >"), st)
  ELSE IF n.id = "alternation" THEN wrap_children("sor< ", n, st)
  ELSE IF n.id = "option"      THEN wrap_children("opt< ", n, st)
  ELSE IF n.id = "group"       THEN wrap_children("seq< ", n, st)
  ELSE IF n.id = "repetition"
  THEN IF Len(n.children) # 2 THEN Throws("assertion_failed", st)
       ELSE LET c == to_string(Back(n), st) IN
            IF c.err # "none" THEN c
            ELSE LET t == repetition_text(Front(n).content, c.str) IN
                 IF t.err # "none" THEN Throws(t.err, c)
                 ELSE Returns(t.str, c)
  ELSE IF n.id = "and_predicate"
  THEN IF Len(n.children) # 1 THEN Throws("assertion_failed", st)
       ELSE LET c == to_string(Front(n), st) IN
            IF c.err # "none" THEN c
            ELSE Returns(prefix \o L("at< ") \o c.str \o L(" >"), c)
  ELSE IF n.id = "not_predicate"
  THEN IF Len(n.children) # 1 THEN Throws("assertion_failed", st)
       ELSE LET c == to_string(Front(n), st) IN
            IF c.err # "none" THEN c
            ELSE Returns(prefix \o L("not_at< ") \o c.str \o L(" >"), c)
  ELSE IF n.id = "concatenation"
  THEN IF Len(n.children) = 0 THEN Throws("assertion_failed", st)
       ELSE wrap_children("seq< ", n, st)
  ELSE IF n.id = "rule" THEN rule_text(n, st)
  ELSE Throws("missing_to_string", st)

(* ------------------------- the inputs of a run ------------------------- *)
\* rule names of the source text (rulename: ALPHA *( ALPHA / DIGIT / "-" ))
RuleNames ==
  { <<"f">>, <<"F">>, <<"i", "f">>, <<"I", "F">>, <<"f", "-", "-">> }

\* defined_as_op
Operators == { <<"=">>, <<"=", "/">> }

\* assignees as the tree transform leaves them
Assignees ==
  { Lit("istring_tag", <<"y">>),
    Lit("istring_tag", <<"x">>),
    Alt(<<Lit("istring_tag", <<"z">>), Ref(<<"F">>)>>),
    Repetition(<<"0">>, Ref(<<"f">>)) }

ParsedRules ==
  { Rule(name, op, a) : name \in RuleNames, op \in Operators, a \in Assignees }

NoCall == [str |-> <<>>, rules |-> <<>>, out |-> <<>>, err |-> "pending"]

(* ------------------------------- main ---------------------------------- *)
Init ==
  /\ phase = "parse"
  /\ children = <<>>
  /\ nparsed = 0
  /\ rules_defined = <<>>
  /\ rules = <<>>
  /\ next = 1
  /\ out = <<>>
  /\ err = "none"
  /\ operand_order \in {"name_first", "body_first"}
  /\ arg = <<>>
  /\ result = NoCall

\* the parser matches grammar::rule and hands the node to root->emplace_back
ParseRule(rule) ==
  /\ phase = "parse"
  /\ nparsed < MaxRules
  /\ LET r == emplace_back(children, rule) IN
       /\ children' = r.children
       /\ err' = r.err
       /\ phase' = IF r.err = "none" THEN "parse" ELSE "failed"
  /\ nparsed' = nparsed + 1
  /\ UNCHANGED <<rules_defined, rules, next, out, operand_order, arg, result>>

\* a must<> of the grammar fails: error_control::raise throws parse_error
ParseError ==
  /\ phase = "parse"
  /\ phase' = "failed"
  /\ err' = "parse_error"
  /\ UNCHANGED <<children, nparsed, rules_defined, rules, next, out,
                 operand_order, arg, result>>

\* eof: parse_tree::parse returns and main collects the defined names
ParseEof ==
  /\ phase = "parse"
  /\ phase' = "gen"
  /\ rules_defined' = [k \in 1..Len(children) |-> get_rulename(Front(children[k]))]
  /\ UNCHANGED <<children, nparsed, rules, next, out, err, operand_order,
                 arg, result>>

\* one iteration of  std::cout << abnf::to_string( rule ) << std::endl
Generate ==
  /\ phase = "gen"
  /\ next <= Len(children)
  /\ LET r == to_string(children[next], [rules |-> rules, out |-> out]) IN
       /\ rules' = r.rules
       /\ err' = r.err
       /\ IF r.err = "none"
          THEN /\ out' = Append(r.out, r.str \o L("\n"))
               /\ next' = next + 1
               /\ phase' = "gen"
          ELSE /\ out' = r.out
               /\ next' = next
               /\ phase' = "failed"
  /\ UNCHANGED <<children, nparsed, rules_defined, operand_order, arg, result>>

\* the loop is over: return 0
Finish ==
  /\ phase = "gen"
  /\ next > Len(children)
  /\ phase' = "done"
  /\ UNCHANGED <<children, nparsed, rules_defined, rules, next, out, err,
                 operand_order, arg, result>>

Next ==
  \/ \E rule \in ParsedRules : ParseRule(rule)
  \/ ParseError
  \/ ParseEof
  \/ Generate
  \/ Finish

Spec == Init /\ [][Next]_vars

(* ---------------- one call of to_string on a repetition ---------------- *)
\* digits per bound of a repeat-count
MaxDigits == 2

RepDigits == {"0", "1", "3", "9"}
DigitStrings == UNION { [1..k -> RepDigits] : k \in 0..MaxDigits }
\* grammar::repeat: *DIGIT "*" *DIGIT / 1*DIGIT
RepeatCounts ==
  { a \o <<"*">> \o b : a \in DigitStrings, b \in DigitStrings }
    \cup (DigitStrings \ {<<>>})
Elements == { Ref(<<"D", "I", "G", "I", "T">>), Lit("one_tag", <<"-">>) }

InitCall ==
  /\ phase = "call"
  /\ arg \in { Repetition(rep, e) : rep \in RepeatCounts, e \in Elements }
  /\ children = <<>>
  /\ nparsed = 0
  /\ rules_defined \in { <<>>, <<<<"D", "I", "G", "I", "T">>>> }
  /\ rules = <<>>
  /\ next = 1
  /\ out = <<>>
  /\ err = "none"
  /\ operand_order \in {"name_first", "body_first"}
  /\ result = NoCall

\* to_string( arg )
Call ==
  /\ phase = "call"
  /\ LET r == to_string(arg, [rules |-> rules, out |-> out]) IN
       /\ result' = r
       /\ rules' = r.rules
       /\ out' = r.out
       /\ err' = r.err
  /\ phase' = "returned"
  /\ UNCHANGED <<children, nparsed, rules_defined, next, operand_order, arg>>

SpecCall == InitCall /\ [][Call]_vars

(* ---------------- the tree transform of a quoted literal --------------- *)
\* characters between the quotes of a literal
MaxTextLen == 2

\* an iterator into the source: data, byte and byte_in_line move together
Iterator(at) == [data |-> at, byte |-> at - 1, byte_in_line |-> at - 1]

\* shift( it, delta )
shift(it, delta) ==
  [data |-> it.data + delta, byte |-> it.byte + delta,
   byte_in_line |-> it.byte_in_line + delta]

\* a node that covers source from begin_ up to, not including, end_
Span(id, source, b, e, kids) ==
  [id |-> id, source |-> source, begin_ |-> b, end_ |-> e, children |-> kids]

\* n->content()
node_content(n) == SubSeq(n.source, n.begin_.data, n.end_.data - 1)

\* selector< grammar::quoted_string >::transform
quoted_string_transform(n) ==
  LET m == [n EXCEPT !.begin_ = shift(n.begin_, 1), !.end_ = shift(n.end_, -1)]
  IN IF \E k \in 1..Len(node_content(m)) : isalpha(node_content(m)[k])
     THEN [m EXCEPT !.id = "istring_tag"]
     ELSE IF Len(node_content(m)) = 1
     THEN [m EXCEPT !.id = "one_tag"]
     ELSE [m EXCEPT !.id = "string_tag"]

\* a transform that keeps the tag the quoted string was given
case_sensitive_string_keeps_tag(n) == Back(n)

\* selector< grammar::case_sensitive_string >::transform
case_sensitive_string_transform(n) ==
  LET m == Back(n)
  IN IF Len(node_content(m)) = 1
     THEN [m EXCEPT !.id = "one_tag"]
     ELSE [m EXCEPT !.id = "string_tag"]

\* grammar::char_val matched on source = marker, DQUOTE, text, DQUOTE: the
\* node left in the tree once the selectors have run
char_val(source) ==
  LET q1 == CHOOSE k \in 1..Len(source) :
              source[k] = "\"" /\ \A j \in 1..(k - 1) : source[j] # "\""
      quoted == quoted_string_transform(
                  Span("quoted_string", source, Iterator(q1),
                       Iterator(Len(source) + 1), <<>>))
  IN IF q1 > 1 /\ tolower(source[2]) = "s"
     THEN case_sensitive_string_transform(
            Span("case_sensitive_string", source, Iterator(1),
                 Iterator(Len(source) + 1), <<quoted>>))
     ELSE quoted

\* "%i" and "%s" are matched by istring< >, in either case
Markers == { <<>>, <<"%", "i">>, <<"%", "I">>, <<"%", "s">>, <<"%", "S">> }
TextChars == {"a", "Z", "5", "-"}
Texts == UNION { [1..k -> TextChars] : k \in 0..MaxTextLen }
Literals == { m \o <<"\"">> \o t \o <<"\"">> : m \in Markers, t \in Texts }

InitLiteral ==
  /\ phase = "literal"
  /\ arg \in Literals
  /\ children = <<>>
  /\ nparsed = 0
  /\ rules_defined = <<>>
  /\ rules = <<>>
  /\ next = 1
  /\ out = <<>>
  /\ err = "none"
  /\ operand_order \in {"name_first", "body_first"}
  /\ result = NoCall

\* the parser matches grammar::char_val on arg
MatchLiteral ==
  /\ phase = "literal"
  /\ result' = char_val(arg)
  /\ phase' = "transformed"
  /\ UNCHANGED <<children, nparsed, rules_defined, rules, next, out, err,
                 operand_order, arg>>

SpecLiteral == InitLiteral /\ [][MatchLiteral]_vars

(* ------------------- parsing from a buffer_input ----------------------- *)
\* largest capacity parameter tried besides those of the unit test
MaxMaximum == 3

\* buffer_input< ... >::chunk_size: set outside these sources (the test
\* asserts chunk_size >= 2); a small value stands for it
chunk_size == 4

\* a parse_cstring that constructs the buffer one byte too large
parse_cstring_wider(maximum) ==
  [maximum |-> maximum + 1, pos |-> 0, matched |-> 0]

\* parse_cstring: buffer_input in( line, maximum, string ), nothing consumed
parse_cstring(maximum) ==
  [maximum |-> maximum, pos |-> 0, matched |-> 0]

\* in.require( amount ) throws when the bytes from the current position on
\* do not fit in the maximum + chunk_size bytes of the buffer
require_throws(in, amount) == in.pos + amount > in.maximum + chunk_size

\* a test: the rule (rep< count, one< 'a' > > or string< 'a', ... > of count
\* characters, followed by eof or not), the length of the string of matching
\* characters, the capacity parameter
Case(kind, count, eof, len, maximum) ==
  [kind |-> kind, count |-> count, eof |-> eof, len |-> len, maximum |-> maximum]

\* the calls of unit_test with the outcome each asserts
unit_test ==
  { [case |-> Case("string", 3, TRUE, 3, 1), expect |-> "matched"],
    [case |-> Case("string", 3, TRUE, 3, 128), expect |-> "matched"],
    [case |-> Case("rep", chunk_size + 2, TRUE, chunk_size + 2, 2), expect |-> "thrown"],
    [case |-> Case("rep", chunk_size + 2, TRUE, chunk_size + 2, 3), expect |-> "matched"],
    [case |-> Case("rep", chunk_size + 9, FALSE, chunk_size + 9, 9), expect |-> "matched"],
    [case |-> Case("rep", chunk_size + 9, FALSE, chunk_size + 10, 9), expect |-> "matched"],
    [case |-> Case("rep", chunk_size + 10, FALSE, chunk_size + 10, 9), expect |-> "thrown"],
    [case |-> Case("rep", chunk_size + 10, FALSE, chunk_size + 11, 9), expect |-> "thrown"],
    [case |-> Case("rep", chunk_size + 10, TRUE, chunk_size + 10, 9), expect |-> "thrown"],
    [case |-> Case("rep", chunk_size + 10, TRUE, chunk_size + 10, 10), expect |-> "thrown"] }

Cases ==
  { t.case : t \in unit_test } \cup
  { Case(kind, count, eof, len, maximum) :
      kind \in {"rep", "string"},
      count \in 0..(chunk_size + MaxMaximum + 2),
      eof \in BOOLEAN,
      len \in 0..(chunk_size + MaxMaximum + 2),
      maximum \in 0..MaxMaximum }

InitBuffer ==
  /\ phase = "parsing"
  /\ arg \in Cases
  /\ result = parse_cstring(arg.maximum)
  /\ children = <<>>
  /\ nparsed = 0
  /\ rules_defined = <<>>
  /\ rules = <<>>
  /\ next = 1
  /\ out = <<>>
  /\ err = "none"
  /\ operand_order = "name_first"

\* one< 'a' > inside rep: require( 1 ), then consume a matching byte
MatchOne ==
  /\ phase = "parsing"
  /\ arg.kind = "rep"
  /\ result.matched < arg.count
  /\ IF require_throws(result, 1)
     THEN phase' = "thrown" /\ result' = result
     ELSE IF result.pos < arg.len
     THEN /\ phase' = "parsing"
          /\ result' = [result EXCEPT !.pos = @ + 1, !.matched = @ + 1]
     ELSE phase' = "no_match" /\ result' = result
  /\ UNCHANGED <<children, nparsed, rules_defined, rules, next, out, err,
                 operand_order, arg>>

\* string< 'a', ... >: require( count ), then consume count matching bytes
MatchString ==
  /\ phase = "parsing"
  /\ arg.kind = "string"
  /\ result.matched < arg.count
  /\ IF require_throws(result, arg.count)
     THEN phase' = "thrown" /\ result' = result
     ELSE IF result.pos + arg.count <= arg.len
     THEN /\ phase' = "parsing"
          /\ result' = [result EXCEPT !.pos = @ + arg.count, !.matched = arg.count]
     ELSE phase' = "no_match" /\ result' = result
  /\ UNCHANGED <<children, nparsed, rules_defined, rules, next, out, err,
                 operand_order, arg>>

\* eof: in.empty() calls require( 1 ) and matches when no byte is left
MatchEof ==
  /\ phase = "parsing"
  /\ result.matched = arg.count
  /\ arg.eof
  /\ phase' = IF require_throws(result, 1) THEN "thrown"
              ELSE IF result.pos = arg.len THEN "matched"
              ELSE "no_match"
  /\ UNCHANGED <<children, nparsed, rules_defined, rules, next, out, err,
                 operand_order, arg, result>>

\* the rule has no eof: parse returns true
MatchDone ==
  /\ phase = "parsing"
  /\ result.matched = arg.count
  /\ ~arg.eof
  /\ phase' = "matched"
  /\ UNCHANGED <<children, nparsed, rules_defined, rules, next, out, err,
                 operand_order, arg, result>>

NextBuffer == MatchOne \/ MatchString \/ MatchEof \/ MatchDone

SpecBuffer == InitBuffer /\ [][NextBuffer]_vars

(* ------------------- if_apply< Rule, Actions... > ---------------------- *)
\* actions of an if_apply
MaxActions == 2
\* bytes a rule may move the input by
MaxConsume == 2

\* in.mark< marker_mode::ENABLED >(): remembers the position
mark(in) == [saved |-> in.pos, committed |-> FALSE]
\* m( true ): the marker gives up the rewind and returns its argument
marker_commit(m) == [m EXCEPT !.committed = TRUE]
\* the marker's destructor: rewinds the input unless committed
marker_destroy(m, in) ==
  IF m.committed THEN in ELSE [in EXCEPT !.pos = m.saved]
\* rule_match_one< Rule, A, M, ... >::match: a match consumes moved bytes; a
\* failure may leave the input moved when the caller's M is not ENABLED
rule_match_one(in, outcome) == [in EXCEPT !.pos = @ + outcome.moved]
\* action_t i2( m, in.data() ): the input from the mark to the position
action_input(m, in) == [begin |-> m.saved, end |-> in.pos]
\* the calls Actions::apply( i2, st ... ), in the order of the braced list
apply_all(actions, i2) ==
  [k \in 1..Len(actions) |->
     [action |-> actions[k], begin |-> i2.begin, end |-> i2.end]]

\* a match that returns true without committing the marker
if_apply_match_uncommitted(in, actions, outcome) ==
  LET m     == mark(in)
      after == rule_match_one(in, outcome)
  IN IF outcome.matched
     THEN [in |-> marker_destroy(m, after),
           applied |-> apply_all(actions, action_input(m, after)),
           ret |-> TRUE]
     ELSE [in |-> marker_destroy(m, after), applied |-> <<>>, ret |-> FALSE]

\* if_apply::match( in, st ... ): the input left, the actions applied to
\* the states, the value returned
if_apply_match(in, actions, outcome) ==
  LET m     == mark(in)
      after == rule_match_one(in, outcome)
  IN IF outcome.matched
     THEN [in |-> marker_destroy(marker_commit(m), after),
           applied |-> apply_all(actions, action_input(m, after)),
           ret |-> TRUE]
     ELSE [in |-> marker_destroy(m, after), applied |-> <<>>, ret |-> FALSE]

ActionNames == {"A", "B"}
ActionLists == UNION { [1..k -> ActionNames] : k \in 0..MaxActions }
Outcomes == [matched : BOOLEAN, moved : 0..MaxConsume]

InitApply ==
  /\ phase = "apply"
  /\ arg \in [in : [pos : 0..MaxConsume], actions : ActionLists]
  /\ result = NoCall
  /\ children = <<>>
  /\ nparsed = 0
  /\ rules_defined = <<>>
  /\ rules = <<>>
  /\ next = 1
  /\ out = <<>>
  /\ err = "none"
  /\ operand_order = "name_first"

\* a call of if_apply< Rule, Actions... >::match on the input arg.in
IfApply(outcome) ==
  /\ phase = "apply"
  /\ result' = [outcome |-> outcome,
                call |-> if_apply_match(arg.in, arg.actions, outcome)]
  /\ phase' = "applied"
  /\ UNCHANGED <<children, nparsed, rules_defined, rules, next, out, err,
                 operand_order, arg>>

NextApply == \E outcome \in Outcomes : IfApply(outcome)

SpecApply == InitApply /\ [][NextApply]_vars

(* ------------------- the tree the parser builds ------------------------ *)
\* rules of one source text
MaxMatched == 3

\* a transform that keeps every node
fold_one_keeps(n) == n

\* fold_one::transform( n )
fold_one(n) == IF Len(n.children) = 1 THEN Front(n) ELSE n

\* What the grammar matched, before any transform: an alternation is a
\* list of concatenations, a concatenation a list of predicates, a
\* predicate a repetition with or without '&' or '!', a repetition an
\* element with or without a repeat, an element a rulename, a char_val, a
\* group or an option.
Rulename(text)    == [kind |-> "rulename", text |-> text, alternation |-> <<>>]
CharVal(text)     == [kind |-> "char_val", text |-> text, alternation |-> <<>>]
Group(a)          == [kind |-> "group", text |-> <<>>, alternation |-> a]
Option(a)         == [kind |-> "option", text |-> <<>>, alternation |-> a]
Repeated(rep, e)  == [repeat |-> rep, element |-> e]
Predicate(op, r)  == [predicate |-> op, repetition |-> r]
Plain(e)          == Predicate("none", Repeated(<<>>, e))

RECURSIVE match_alternation(_)

\* grammar::element: the one node its alternative leaves; a group is
\* folded, an option is kept
match_element(e) ==
  IF e.kind = "rulename" THEN Ref(e.text)
  ELSE IF e.kind = "char_val"
  THEN LET n == char_val(e.text) IN Lit(n.id, node_content(n))
  ELSE IF e.kind = "group"
  THEN fold_one(Node("group", <<>>, <<match_alternation(e.alternation)>>))
  ELSE Node("option", <<>>, <<match_alternation(e.alternation)>>)

\* grammar::repetition: seq< opt< repeat >, element >, then fold_one
match_repetition(r) ==
  fold_one(Node("repetition", <<>>,
                (IF r.repeat = <<>> THEN <<>>
                 ELSE <<Node("repeat", r.repeat, <<>>)>>)
                \o <<match_element(r.element)>>))

\* grammar::predicate: sor< and_predicate, not_predicate, repetition >
match_predicate(p) ==
  IF p.predicate = "and"
  THEN Node("and_predicate", <<>>, <<match_repetition(p.repetition)>>)
  ELSE IF p.predicate = "not"
  THEN Node("not_predicate", <<>>, <<match_repetition(p.repetition)>>)
  ELSE match_repetition(p.repetition)

\* grammar::concatenation: list< predicate, ... >, then fold_one
match_concatenation(c) ==
  fold_one(Node("concatenation", <<>>,
                [k \in 1..Len(c) |-> match_predicate(c[k])]))

\* grammar::alternation: list_must< concatenation, ... >, then fold_one
match_alternation(a) ==
  fold_one(Node("alternation", <<>>,
                [k \in 1..Len(a) |-> match_concatenation(a[k])]))

\* grammar::rule: rulename, defined_as_op, alternation
match_rule(name, op, a) == Rule(name, op, match_alternation(a))

\* right-hand sides of the source text
MatchedAlternations ==
  LET f == Rulename(<<"f">>)
      x == CharVal(<<"\"", "x", "\"">>)
      m == CharVal(<<"%", "s", "\"", "-", "\"">>)
  IN { <<<<Plain(f)>>>>,                                            \* f
       <<<<Plain(x)>>>>,                                            \* "x"
       <<<<Predicate("none", Repeated(<<"*">>, f))>>>>,             \* *f
       <<<<Plain(f), Plain(m)>>>>,                                  \* f %s"-"
       <<<<Plain(f)>>, <<Plain(x)>>>>,                              \* f / "x"
       <<<<Plain(Group(<<<<Plain(f)>>>>))>>>>,                      \* (f)
       <<<<Predicate("none",
            Repeated(<<"2">>, Group(<<<<Plain(f)>>, <<Plain(x)>>>>)))>>>>,
                                                                    \* 2(f / "x")
       <<<<Plain(Option(<<<<Plain(f)>>>>))>>>>,                     \* [f]
       <<<<Predicate("not", Repeated(<<>>, f)), Plain(x)>>>>,       \* !f "x"
       <<<<Predicate("and", Repeated(<<"1", "*">>, f))>>>> }        \* &1*f

MatchedNames == { <<"f">>, <<"g">> }

\* the parser matches grammar::rule: the selectors build the node and hand
\* it to root->emplace_back
MatchRule(name, op, a) ==
  /\ phase = "parse"
  /\ nparsed < MaxMatched
  /\ LET r == emplace_back(children, match_rule(name, op, a)) IN
       /\ children' = r.children
       /\ err' = r.err
       /\ phase' = IF r.err = "none" THEN "parse" ELSE "failed"
  /\ nparsed' = nparsed + 1
  /\ UNCHANGED <<rules_defined, rules, next, out, operand_order, arg, result>>

NextTree ==
  \/ \E name \in MatchedNames, op \in Operators, a \in MatchedAlternations :
       MatchRule(name, op, a)
  \/ ParseEof
  \/ Generate
  \/ Finish

SpecTree == Init /\ [][NextTree]_vars

(* ------------------- rule insertion (node::emplace_back) --------------- *)
\* two names are the same name: equal ignoring ASCII case once every '-'
\* is written '_'
SameName(a, b) ==
  /\ Len(a) = Len(b)
  /\ \A k \in 1..Len(a) :
       tolower(IF a[k] = "-" THEN "_" ELSE a[k])
         = tolower(IF b[k] = "-" THEN "_" ELSE b[k])

NameOf(rule) == Front(rule).content
OpOf(rule)   == rule.children[2].content
\* the positions of list whose rule has the name of rule
Entries(list, rule) ==
  { k \in 1..Len(list) : SameName(NameOf(list[k]), NameOf(rule)) }
\* the alternatives an assignee stands for
Alternatives(a) == IF a.id = "alternation" THEN a.children ELSE <<a>>

\* C1 (as claimed): inserting a "=/" rule whose name is already in the
\* rulelist succeeds wherever the existing rule is, and leaves exactly one
\* entry for the name, whose assignee is the alternation of the previous
\* alternatives followed by the new ones.
C1_IncrementalMergeSucceeds ==
  phase = "parse" =>
    \A rule \in ParsedRules :
      (OpOf(rule) = <<"=", "/">> /\ Entries(children, rule) # {}) =>
        LET r    == emplace_back(children, rule)
            prev == children[CHOOSE k \in Entries(children, rule) : TRUE]
        IN /\ r.err = "none"
           /\ Cardinality(Entries(r.children, rule)) = 1
           /\ \A k \in Entries(r.children, rule) :
                /\ Back(r.children[k]).id = "alternation"
                /\ Back(r.children[k]).children
                     = Alternatives(Back(prev)) \o Alternatives(Back(rule))

\* C2 (as claimed): a "=/" rule merged into the rule at index i leaves the
\* merged rule at index i and every other rule at its index.
C2_MergedRuleKeepsIndex ==
  phase = "parse" =>
    \A rule \in ParsedRules :
      (OpOf(rule) = <<"=", "/">> /\ Entries(children, rule) # {}) =>
        LET r == emplace_back(children, rule)
            i == CHOOSE k \in Entries(children, rule) : TRUE
        IN r.err = "none" =>
             /\ Len(r.children) = Len(children)
             /\ SameName(NameOf(r.children[i]), NameOf(rule))
             /\ \A j \in 1..Len(children) : j # i => r.children[j] = children[j]

\* C2 (amended): a "=/" rule merged into the rule at index i takes that
\* rule out of index i; the other rules keep their relative order (those
\* behind i move up by one); when the insertion returns without error the
\* merged rule is the last entry of the rulelist.
C2_MergedRuleMovesToEnd ==
  phase = "parse" =>
    \A rule \in ParsedRules :
      (OpOf(rule) = <<"=", "/">> /\ Entries(children, rule) # {}) =>
        LET r == emplace_back(children, rule)
            i == CHOOSE k \in Entries(children, rule) : TRUE
            others == [j \in 1..(Len(children) - 1) |->
                         IF j < i THEN children[j] ELSE children[j + 1]]
        IN /\ Len(r.children) >= Len(others)
           /\ SubSeq(r.children, 1, Len(others)) = others
           /\ r.err = "none" =>
                /\ Len(r.children) = Len(children)
                /\ SameName(NameOf(r.children[Len(children)]), NameOf(rule))
           /\ r.err # "none" => r.children = others

\* three rules inserted without error, one of them merged into an earlier one
C2_Witness ==
  phase = "parse" /\ err = "none" /\ nparsed = 3 /\ Len(children) = 2

\* C3: after any sequence of insertions, accepted or rejected, no two
\* entries of the rulelist have the same name (ignoring case, '-' as '_').
C3_NamesUnique ==
  \A i, j \in 1..Len(children) :
    i # j => ~SameName(NameOf(children[i]), NameOf(children[j]))

\* a definition was rejected as a duplicate with two rules in the list
C3_Witness ==
  phase = "failed" /\ err = "already_defined" /\ Len(children) >= 2

\* C4: inserting a "=" rule whose name is already in the rulelist fails
\* with the duplicate-definition error and leaves the rulelist as it was.
C4_DuplicateDefinitionRejected ==
  phase = "parse" =>
    \A rule \in ParsedRules :
      (OpOf(rule) = <<"=">> /\ Entries(children, rule) # {}) =>
        LET r == emplace_back(children, rule)
        IN r.err = "already_defined" /\ r.children = children

\* a duplicate definition was rejected; every earlier rule is still there
C4_Witness ==
  /\ phase = "failed" /\ err = "already_defined"
  /\ Len(children) >= 1 /\ nparsed = Len(children) + 1

\* C5: inserting a "=/" rule whose name is not in the rulelist fails with
\* the missing-previous-rule error and leaves the rulelist as it was.
C5_ExtensionWithoutPreviousRejected ==
  phase = "parse" =>
    \A rule \in ParsedRules :
      (OpOf(rule) = <<"=", "/">> /\ Entries(children, rule) = {}) =>
        LET r == emplace_back(children, rule)
        IN r.err = "without_previous" /\ r.children = children

\* an extension was rejected and no rule has left the list
C5_Witness ==
  /\ phase = "failed" /\ err = "without_previous"
  /\ Len(children) >= 1 /\ nparsed = Len(children) + 1

(* ----------------------- name resolution (get_rulename) ---------------- *)
\* the positions of rules that hold a spelling of name
Seen(name) == { k \in 1..Len(rules) : SameName(rules[k], name) }
Here == [rules |-> rules, out |-> out]

\* C6: resolving a rule name returns the spelling, '-' written '_', under
\* which the same name was first resolved, whatever the case of the
\* reference, and registers nothing new.
C6_FirstSeenSpelling ==
  \A name \in RuleNames : \A fwd \in BOOLEAN :
    Seen(name) # {} =>
      LET a     == get_rulename_fwd(Ref(name), fwd, Here)
          first == CHOOSE k \in Seen(name) : \A j \in Seen(name) : k <= j
      IN /\ a.err = "none"
         /\ a.ret = rules[first]
         /\ \A k \in 1..Len(a.ret) : a.ret[k] # "-"
         /\ a.rules = rules

\* lines written to the output
IsForward(line)    == Len(line) = 3 /\ line[3] = L(";\n")[1]
IsDefinition(line) == Len(line) > 3 /\ line[3] = L(" : ")[1]
Declared(line)     == line[2].v
References(line)   == { line[k].v : k \in { j \in 4..Len(line) : line[j].t = "id" } }

\* the rule written f was emitted under the spelling F seen first
C6_Witness ==
  /\ \E k \in 1..Len(children) : k < next /\ NameOf(children[k]) = <<"f">>
  /\ \E q \in 1..Len(out) : IsDefinition(out[q]) /\ Declared(out[q]) = <<"F">>

\* C7 (as claimed): resolving a not-yet-seen name that equals a reserved
\* word ignoring case, or holds a double underscore once normalized, fails
\* with the reserved-name error and registers nothing.
C7_ReservedIgnoringCase ==
  phase = "gen" =>
    \A name \in RuleNames : \A fwd \in BOOLEAN :
      LET v == replace(name)
          lower == [k \in 1..Len(v) |-> tolower(v[k])]
          a == get_rulename_fwd(Ref(name), fwd, Here)
      IN (Seen(name) = {} /\ (lower \in keywords \/ find_double_underscore(v))) =>
           a.err = "reserved_rulename" /\ a.rules = rules

\* C7 (amended): resolving a not-yet-seen name whose normalized spelling
\* is exactly a reserved word (case matters: if is rejected, IF is not), or
\* holds a double underscore, fails with the reserved-name error and
\* registers nothing.
C7_ReservedExactSpelling ==
  phase = "gen" =>
    \A name \in RuleNames : \A fwd \in BOOLEAN :
      LET v == replace(name)
          a == get_rulename_fwd(Ref(name), fwd, Here)
      IN (Seen(name) = {} /\ (v \in keywords \/ find_double_underscore(v))) =>
           a.err = "reserved_rulename" /\ a.rules = rules /\ a.out = out

\* generation stopped at a reserved name after it had registered others
C7_Witness ==
  /\ phase = "failed" /\ err = "reserved_rulename"
  /\ rules # <<>>
  /\ \A k \in 1..Len(rules) :
       rules[k] \notin keywords /\ ~find_double_underscore(rules[k])

\* C8 (as claimed): when the compilation fails, nothing of it has been
\* written to the output.
C8_NoOutputOnFailure ==
  phase = "failed" => out = <<>>

(* -------------------------- forward declarations ----------------------- *)
IsDefined(v) == \E k \in 1..Len(rules_defined) : SameName(rules_defined[k], v)

\* C9: a forward declaration is written only for a defined name, once, and
\* never after a statement that defines or mentions the name; every
\* statement that mentions a defined name comes after the forward
\* declaration or the definition of that name (its own name counts when the
\* build resolves it before the body).
C9_ForwardDeclarations ==
  /\ \A q \in 1..Len(out) :
       IsForward(out[q]) =>
         /\ IsDefined(Declared(out[q]))
         /\ \A p \in 1..(q - 1) :
              /\ IsForward(out[p]) => ~SameName(Declared(out[p]), Declared(out[q]))
              /\ IsDefinition(out[p]) =>
                   /\ ~SameName(Declared(out[p]), Declared(out[q]))
                   /\ \A r \in References(out[p]) : ~SameName(r, Declared(out[q]))
  /\ \A p \in 1..Len(out) :
       IsDefinition(out[p]) =>
         \A r \in References(out[p]) :
           IsDefined(r) =>
             \/ \E q \in 1..(p - 1) : IsForward(out[q]) /\ Declared(out[q]) = r
             \/ \E q \in 1..(p - 1) : IsDefinition(out[q]) /\ Declared(out[q]) = r
             \/ Declared(out[p]) = r /\ operand_order = "name_first"

\* a name was declared, then used, then defined
C9_Witness ==
  \E q, p, d \in 1..Len(out) :
    /\ q < p /\ p < d
    /\ IsForward(out[q]) /\ IsDefinition(out[p]) /\ IsDefinition(out[d])
    /\ Declared(out[q]) \in References(out[p])
    /\ Declared(out[d]) = Declared(out[q])

(* ------------------------------ repetition ----------------------------- *)
RepeatOf(n)  == Front(n).content
\* the repeat-count is written N*M with both bounds present
HasBothBounds(rep) ==
  /\ find_star(rep) > 1
  /\ find_star(rep) < Len(rep)
LowerBound(rep) == strtoull(SubSeq(rep, 1, find_star(rep) - 1))
UpperBound(rep) == strtoull(SubSeq(rep, find_star(rep) + 1, Len(rep)))
\* the text of the repeated element, as the call that returned wrote it
ElementText == to_string(Back(arg), [rules |-> rules, out |-> out]).str
Exactly(n, content) ==
  prefix \o L("rep< ") \o Chars(std_to_string(n)) \o L(", ") \o content \o L(" >")

\* C10: for a repeat-count N*M with 1 <= N < M the generator emits
\* seq< lower, upper >: lower is the element itself if N = 1 and
\* rep< N, element > otherwise; upper is opt< element > if M - N = 1 and
\* rep_opt< M - N, element > otherwise.
C10_BoundedRepetition ==
  (phase = "returned" /\ HasBothBounds(RepeatOf(arg))) =>
    LET N == LowerBound(RepeatOf(arg))
        M == UpperBound(RepeatOf(arg))
        lower == IF N = 1 THEN ElementText ELSE Exactly(N, ElementText)
        upper == IF M - N = 1
                 THEN prefix \o L("opt< ") \o ElementText \o L(" >")
                 ELSE prefix \o L("rep_opt< ") \o Chars(std_to_string(M - N))
                      \o L(", ") \o ElementText \o L(" >")
    IN (1 <= N /\ N < M) =>
         /\ result.err = "none"
         /\ result.str = prefix \o L("seq< ") \o lower \o L(", ") \o upper \o L(" >")

\* 1*3DIGIT was emitted as seq< DIGIT, rep_opt< 2, DIGIT > >
C10_Witness ==
  /\ phase = "returned"
  /\ RepeatOf(arg) = <<"1", "*", "3">>
  /\ result.str = prefix \o L("seq< ") \o Id(<<"D", "I", "G", "I", "T">>) \o L(", ")
                  \o prefix \o L("rep_opt< ") \o Chars(<<"2">>) \o L(", ")
                  \o Id(<<"D", "I", "G", "I", "T">>) \o L(" >") \o L(" >")

\* the repeat-count is written N*N' with both bounds present and equal >= 1
HasEqualBounds(rep) ==
  /\ HasBothBounds(rep)
  /\ LowerBound(rep) = UpperBound(rep)
  /\ LowerBound(rep) >= 1

\* C11 (as claimed): for every N >= 1 the repeat-count N*N is emitted as
\* the exact repeat-count N written without '*' is.
C11_EqualBoundsAsExact ==
  (phase = "returned" /\ HasEqualBounds(RepeatOf(arg))) =>
    /\ result.err = "none"
    /\ result.str = repetition_text(std_to_string(LowerBound(RepeatOf(arg))),
                                     ElementText).str

\* C11 (amended): for every N >= 2 the repeat-count N*N is emitted as the
\* exact repeat-count N is, rep< N, element >; 1*1 is emitted as the bare
\* element, while the exact repeat-count 1 is emitted as rep< 1, element >.
C11_EqualBoundsCollapse ==
  (phase = "returned" /\ HasEqualBounds(RepeatOf(arg))) =>
    LET N == LowerBound(RepeatOf(arg))
        exact == repetition_text(std_to_string(N), ElementText)
    IN /\ result.err = "none"
       /\ exact.err = "none"
       /\ exact.str = Exactly(N, ElementText)
       /\ N >= 2 => result.str = exact.str
       /\ N = 1 => result.str = ElementText

\* 3*3DIGIT was emitted as rep< 3, DIGIT >
C11_Witness ==
  /\ phase = "returned"
  /\ RepeatOf(arg) = <<"3", "*", "3">>
  /\ result.str = prefix \o L("rep< ") \o Chars(<<"3">>) \o L(", ")
                  \o Id(<<"D", "I", "G", "I", "T">>) \o L(" >")

Wrapped(open, content) == prefix \o L(open) \o content \o L(" >")
Counted(open, n, content) ==
  prefix \o L(open) \o Chars(std_to_string(n)) \o L(", ") \o content \o L(" >")

\* C12: N* emits star< > when N is empty or zero, plus< > when N is 1 and
\* rep_min< N, > otherwise; *M emits opt< > when M is 1 and rep_max< M, >
\* for any other M that is not zero; a bare * emits star< >.
C12_OneSidedRepetition ==
  phase = "returned" =>
    LET rep  == RepeatOf(arg)
        star == find_star(rep)
        N    == strtoull(SubSeq(rep, 1, star - 1))
        M    == strtoull(SubSeq(rep, star + 1, Len(rep)))
    IN /\ (star > 0 /\ star = Len(rep)) =>
            /\ result.err = "none"
            /\ result.str = IF N = 0 THEN Wrapped("star< ", ElementText)
                            ELSE IF N = 1 THEN Wrapped("plus< ", ElementText)
                            ELSE Counted("rep_min< ", N, ElementText)
       /\ (star = 1 /\ star < Len(rep) /\ M # 0) =>
            /\ result.err = "none"
            /\ result.str = IF M = 1 THEN Wrapped("opt< ", ElementText)
                            ELSE Counted("rep_max< ", M, ElementText)

\* 1*DIGIT was emitted as plus< DIGIT >
C12_Witness ==
  /\ phase = "returned"
  /\ RepeatOf(arg) = <<"1", "*">>
  /\ result.str = prefix \o L("plus< ") \o Id(<<"D", "I", "G", "I", "T">>) \o L(" >")

\* the three cases in which a repeat-count is not allowed
ZeroCount(rep) == find_star(rep) = 0 /\ strtoull(rep) = 0
ZeroMaximum(rep) ==
  /\ find_star(rep) > 0
  /\ find_star(rep) < Len(rep)
  /\ UpperBound(rep) = 0
MinimumAboveMaximum(rep) ==
  /\ HasBothBounds(rep)
  /\ LowerBound(rep) # 0
  /\ UpperBound(rep) # 0
  /\ LowerBound(rep) > UpperBound(rep)

\* C13: generating a repetition fails exactly when the count has no '*'
\* and is zero, or a maximum is written and is zero, or both bounds are
\* not zero and the minimum is greater than the maximum; in every other
\* case a construct is emitted.
C13_RepetitionErrors ==
  phase = "returned" =>
    LET rep == RepeatOf(arg) IN
    /\ ZeroCount(rep) => result.err = "repetition_of_zero"
    /\ ZeroMaximum(rep) => result.err = "repetition_maximum_of_zero"
    /\ MinimumAboveMaximum(rep) =>
         result.err = "repetition_minimum_greater_than_maximum"
    /\ ~(ZeroCount(rep) \/ ZeroMaximum(rep) \/ MinimumAboveMaximum(rep)) =>
         result.err = "none" /\ result.str # <<>>

\* 3*1DIGIT was rejected
C13_Witness ==
  /\ phase = "returned"
  /\ RepeatOf(arg) = <<"3", "*", "1">>
  /\ result.err = "repetition_minimum_greater_than_maximum"

(* --------------------------- quoted literals --------------------------- *)
\* the marker and the quoted text of a literal of the source
MarkerOf(source) ==
  SubSeq(source, 1, (CHOOSE k \in 1..Len(source) : source[k] = "\""
                       /\ \A j \in 1..(k - 1) : source[j] # "\"") - 1)
QuotedOf(source) == SubSeq(source, Len(MarkerOf(source)) + 2, Len(source) - 1)
HasLetter(text) ==
  \E k \in 1..Len(text) : \E j \in 1..26 :
    text[k] = UpperCase[j] \/ text[k] = LowerCase[j]

\* C14: a literal without marker or with %i is an istring if its text
\* holds a letter, else a one if its text has one character, else a
\* string; a literal with %s is a one if its text has one character, else
\* a string; the content is the text between the quotes.
C14_LiteralClassification ==
  phase = "transformed" =>
    LET text == QuotedOf(arg)
        sensitive == MarkerOf(arg) \in { <<"%", "s">>, <<"%", "S">> }
    IN /\ node_content(result) = text
       /\ result.begin_.data = Len(MarkerOf(arg)) + 2
       /\ result.end_.data = Len(arg)
       /\ result.id = IF ~sensitive /\ HasLetter(text) THEN "istring_tag"
                      ELSE IF Len(text) = 1 THEN "one_tag"
                      ELSE "string_tag"

\* %s"aZ" became a string with content aZ
C14_Witness ==
  /\ phase = "transformed"
  /\ arg = <<"%", "s", "\"", "a", "Z", "\"">>
  /\ result.id = "string_tag"
  /\ node_content(result) = <<"a", "Z">>

(* ----------------------------- buffer_input ---------------------------- *)
\* the most bytes the parse of a case asks to have in the buffer at once:
\* the bytes of the rule, one more for eof, or the byte at which it fails
Needed(case) ==
  IF case.kind = "rep"
  THEN IF case.count <= case.len
       THEN case.count + (IF case.eof THEN 1 ELSE 0)
       ELSE case.len + 1
  ELSE IF case.count = 0 \/ case.count <= case.len
       THEN case.count + (IF case.eof THEN 1 ELSE 0)
       ELSE case.count

\* C15: without discard, a parse over a buffer_input of capacity parameter
\* maximum throws as soon as it needs more than maximum + chunk_size bytes
\* in the buffer at once, the byte eof asks for included, and otherwise
\* ends in a match or a mismatch; the unit test's calls end as it asserts.
C15_BufferCapacity ==
  LET capacity == arg.maximum + chunk_size IN
  /\ phase # "thrown" => result.pos <= capacity
  /\ phase = "thrown" => result.pos + 1 > capacity \/ arg.kind = "string"
  /\ phase # "parsing" =>
       /\ phase = "thrown" <=> Needed(arg) > capacity
       /\ phase = "matched" <=>
            /\ Needed(arg) <= capacity
            /\ arg.count <= arg.len
            /\ arg.eof => arg.count = arg.len
       /\ \A t \in unit_test : t.case = arg => phase = t.expect

\* with maximum = 3 the parse of chunk_size + 2 bytes and eof matched
C15_Witness ==
  /\ phase = "matched"
  /\ arg = Case("rep", chunk_size + 2, TRUE, chunk_size + 2, 3)
  /\ result.pos = chunk_size + 2

(* ------------------------------- if_apply ------------------------------ *)
\* C16: when Rule does not match, match returns false, applies no action
\* and leaves the input where it was; when Rule matches, match returns
\* true, keeps the input consumed and has applied every action once, in
\* the order declared, to the input from the old position to the new one.
C16_IfApply ==
  phase = "applied" =>
    LET before == arg.in.pos
        after  == before + result.outcome.moved
    IN IF result.outcome.matched
       THEN /\ result.call.ret = TRUE
            /\ result.call.in.pos = after
            /\ Len(result.call.applied) = Len(arg.actions)
            /\ \A k \in 1..Len(arg.actions) :
                 /\ result.call.applied[k].action = arg.actions[k]
                 /\ result.call.applied[k].begin = before
                 /\ result.call.applied[k].end = after
       ELSE /\ result.call.ret = FALSE
            /\ result.call.in.pos = before
            /\ result.call.applied = <<>>

\* Rule matched two bytes and the actions A, B were applied in that order
C16_Witness ==
  /\ phase = "applied"
  /\ arg.actions = <<"A", "B">>
  /\ result.outcome = [matched |-> TRUE, moved |-> 2]
  /\ result.call.applied[1].action = "A"
  /\ result.call.applied[2].action = "B"
  /\ result.call.in.pos = arg.in.pos + 2

(* ------------------------------ fold_one ------------------------------- *)
RECURSIVE Folded(_)
\* no wrapper with a single child in n: an alternation or concatenation
\* has at least two children, a group is never left with one, a repetition
\* has a repeat and an element
Folded(n) ==
  /\ n.id \in {"alternation", "concatenation"} => Len(n.children) >= 2
  /\ n.id = "group" => Len(n.children) # 1
  /\ n.id = "repetition" =>
       /\ Len(n.children) = 2
       /\ Front(n).id = "repeat"
       /\ Back(n).id # "repeat"
  /\ \A k \in 1..Len(n.children) : Folded(n.children[k])

RECURSIVE Has(_, _)
\* a node of kind id in n
Has(n, id) == n.id = id \/ \E k \in 1..Len(n.children) : Has(n.children[k], id)

\* C17: in every tree handed to the generator no alternation,
\* concatenation, group or repetition node has exactly one child, the
\* alternations made or extended by "=/" included; every repetition node
\* has two children, the repeat and the element, and the generator's
\* assertion on the size never fails.
C17_NoSingletonNodes ==
  /\ \A k \in 1..Len(children) : Folded(children[k])
  /\ err # "assertion_failed"

\* the generator has written a rule whose assignee "=/" made into an
\* alternation, with a repetition among its alternatives
C17_Witness ==
  /\ phase = "done"
  /\ nparsed = 3
  /\ Len(children) = 2
  /\ Len(out) >= 2
  /\ Back(children[2]).id = "alternation"
  /\ Len(Back(children[2]).children) = 2
  /\ Front(Back(children[2])).id = "istring_tag"
  /\ Has(Back(children[2]), "repetition")
====
